---- MODULE Spec2Model ----
(***************************************************************************)
(* A model of pymt/ui/animation.py: the per-(animation, widget) animation  *)
(* objects (AnimationBase and its Absolute / Delta variants), the leaf     *)
(* Animation, the Sequence and Parallel combinators, the Repeat controller *)
(* and three of the easing functions of AnimationAlpha.                    *)
(*                                                                         *)
(* Time is counted in integer clock units.  A Python number is a record    *)
(* [k |-> "num", t |-> "int" | "float", v |-> n] that stands for n / Scale; *)
(* an int holds a multiple of Scale, a float is kept to a resolution of    *)
(* 1 / Scale.  A ratio (progress, eased value) is a pair [num, den].  A     *)
(* list or a tuple is [k |-> "list" | "tuple", items |-> a sequence], a    *)
(* dict is [k |-> "dict", items |-> a function of its keys].               *)
(***************************************************************************)
EXTENDS Integers, Sequences, FiniteSets, TLC

\* ------------------------------------------------------------------ bounds
Scale == 2
MaxDuration == 2
MaxDt == 2
MaxTimes == 3
MaxRepeat == 4
MaxLog == 4
MaxChildren == 4

Leaves == {"a", "b", "c"}
Widgets == {"w1", "w2"}
Props == {"x", "y", "z"}
Easings == {"linear", "ease_in_quad", "ease_out_cubic"}

VARIABLES
    root,              \* the animation the user animates or wraps: a leaf, "seq" or "par"
    params,            \* Animation.params of every leaf
    animations,        \* ComplexAnimation.animations: the child list
    single_event,      \* ComplexAnimation.single_event
    repeated,          \* TRUE when a Repeat controller wraps root
    times,             \* Repeat._times (-1: unbounded)
    attr,              \* the widgets' attributes
    children,          \* Animation.children of every leaf: widget -> animation object
    anim_counter,      \* SequenceAnimation.anim_counter
    dispatch_counter,  \* ParallelAnimation.dispatch_counter
    repeat_counter,    \* Repeat._repeat_counter
    clock,             \* schedule_interval registrations of every animation object
    log,               \* per widget, the events dispatched for it, in order
    attr0,             \* the widgets' attributes before any animation
    targets,           \* the widgets the user animates
    animated,          \* the widgets the user has animated
    stale,             \* schedule_interval registrations held by discarded animation objects
    result             \* the last call that returned a flag or raised: what, on which widget, the outcome

config == <<root, params, animations, single_event, repeated, times, attr0, targets>>
vars == <<root, params, animations, single_event, repeated, times, attr,
          children, anim_counter, dispatch_counter, repeat_counter, clock, log,
          attr0, targets, animated, stale, result>>

\* ------------------------------------------------------------ arithmetic
Min(a, b) == IF a < b THEN a ELSE b

\* Python's int(): truncation toward zero (den > 0).
TruncDiv(n, den) == IF n >= 0 THEN n \div den ELSE -((-n) \div den)

PyInt(n) == [k |-> "num", t |-> "int", v |-> n * Scale]
PyFloat(n) == [k |-> "num", t |-> "float", v |-> n]

\* type(vstart)(num / den), with num / den counted in 1 / Scale
Cast(t, num, den) ==
    IF t = "int"
    THEN [k |-> "num", t |-> "int", v |-> TruncDiv(num, den * Scale) * Scale]
    ELSE [k |-> "num", t |-> "float", v |-> TruncDiv(num, den)]

\* Python's a + b on numbers: an int only when both are
Add(a, b) ==
    [k |-> "num",
     t |-> IF a.t = "int" /\ b.t = "int" THEN "int" ELSE "float",
     v |-> a.v + b.v]

PyList(items) == [k |-> "list", items |-> items]
PyTuple(items) == [k |-> "tuple", items |-> items]
PyDict(items) == [k |-> "dict", items |-> items]

IsSeq(v) == v.k \in {"list", "tuple"}

\* Python's a + b: the sum of two numbers, the concatenation of two sequences
Plus(a, b) == IF IsSeq(a) THEN [k |-> a.k, items |-> a.items \o b.items] ELSE Add(a, b)

\* type(v0)(r): r as a value of the type of v0
Retype(v0, r) ==
    IF v0.k = "num" THEN Cast(v0.t, r.v, 1)
    ELSE IF IsSeq(v0) THEN [k |-> v0.k, items |-> r.items]
    ELSE r

\* ------------------------------------------------------------ AnimationAlpha
\* The eased value as a ratio; progress is the ratio p, t the frame pointer
\* and d the duration of the animation object.
linear(p, t, d) == p

ease_in_quad(p, t, d) == [num |-> p.num * p.num, den |-> p.den * p.den]

ease_out_cubic(p, t, d) ==
    [num |-> (t - d) * (t - d) * (t - d) + d * d * d, den |-> d * d * d]

alpha_function(f, p, t, d) ==
    CASE f = "linear" -> linear(p, t, d)
      [] f = "ease_in_quad" -> ease_in_quad(p, t, d)
      [] f = "ease_out_cubic" -> ease_out_cubic(p, t, d)

\* ------------------------------------------------------------ AnimationBase
\* _calculate_attribute_value without the casts to the type of the start
\* value: every number comes out as the float the expression computes
RECURSIVE calculate_attribute_value_Uncast(_, _, _)
calculate_attribute_value_Uncast(vstart, vend, t) ==
    IF IsSeq(vstart)
    THEN PyList([i \in 1..Len(vstart.items) |->
                    calculate_attribute_value_Uncast(vstart.items[i], vend.items[i], t)])
    ELSE IF vstart.k = "dict"
    THEN PyDict([key \in DOMAIN vstart.items |->
                    calculate_attribute_value_Uncast(vstart.items[key], vend.items[key], t)])
    ELSE Cast("float", vstart.v * (t.den - t.num) + vend.v * t.num, t.den)

\* _calculate_attribute_value: a tuple or a list gives a list, a dict a dict,
\* each element cast to the type of the start element; a number gives
\* type(vstart)(vstart * (1 - t) + vend * t)
RECURSIVE calculate_attribute_value(_, _, _)
calculate_attribute_value(vstart, vend, t) ==
    IF IsSeq(vstart)
    THEN PyList([i \in 1..Len(vstart.items) |->
                    Retype(vstart.items[i],
                           calculate_attribute_value(vstart.items[i], vend.items[i], t))])
    ELSE IF vstart.k = "dict"
    THEN PyDict([key \in DOMAIN vstart.items |->
                    Retype(vstart.items[key],
                           calculate_attribute_value(vstart.items[key], vend.items[key], t))])
    ELSE Cast(vstart.t, vstart.v * (t.den - t.num) + vend.v * t.num, t.den)

\* update(t) writing the properties of every widget instead of self.widget
update_AllWidgets(s, l, w, t) ==
    LET obj == s.children[l][w]
    IN [s EXCEPT !.attr =
           [v \in DOMAIN @ |->
               [p \in DOMAIN @[v] |->
                   IF p \in DOMAIN obj.prop_list
                   THEN calculate_attribute_value(obj.prop_list[p].start,
                                                  obj.prop_list[p].end, t)
                   ELSE @[v][p]]]]

\* update(t): every property of the object's _prop_list is written
update(s, l, w, t) ==
    LET obj == s.children[l][w]
    IN [s EXCEPT !.attr[w] =
           [p \in DOMAIN @ |->
               IF p \in DOMAIN obj.prop_list
               THEN calculate_attribute_value(obj.prop_list[p].start,
                                              obj.prop_list[p].end, t)
               ELSE @[p]]]

\* DeltaAnimationBase._update_list: a list of the elementwise sums
update_list(ip_list, op_list) ==
    PyList([i \in 1..Len(ip_list.items) |-> Plus(ip_list.items[i], op_list.items[i])])

\* DeltaAnimationBase._update_dict
update_dict(ip_dict, op_dict) ==
    PyDict([key \in DOMAIN ip_dict.items |->
               IF IsSeq(ip_dict.items[key])
               THEN update_list(ip_dict.items[key], op_dict.items[key])
               ELSE Plus(ip_dict.items[key], op_dict.items[key])])

\* the start value kept for a property whose live value is cval: of a dict,
\* only the keys the animation declares
Snapshot(cval, declared) ==
    IF cval.k = "dict"
    THEN PyDict([key \in DOMAIN declared.items |-> cval.items[key]])
    ELSE cval

\* the end value of a Delta animation: the start value plus the declared delta
DeltaEnd(cval, declared) ==
    IF IsSeq(cval) THEN update_list(cval, declared)
    ELSE IF cval.k = "dict" THEN update_dict(Snapshot(cval, declared), declared)
    ELSE Plus(cval, declared)

\* AbsoluteAnimationBase.__init__ / DeltaAnimationBase.__init__
NewAnimObj(s, l, w, animator) ==
    [animator |-> animator,
     duration |-> params[l].duration,
     alpha |-> params[l].f,
     generate_event |-> params[l].generate_event,
     type |-> params[l].type,
     frame_pointer |-> 0,
     progress |-> [num |-> 0, den |-> params[l].duration],
     running |-> FALSE,
     prop_list |->
        [p \in DOMAIN params[l].props |->
            [start |-> Snapshot(s.attr[w][p], params[l].props[p]),
             end |-> IF params[l].type = "absolute"
                     THEN params[l].props[p]
                     ELSE DeltaEnd(s.attr[w][p], params[l].props[p])]]]

Emit(s, w, e, src, n) ==
    [s EXCEPT !.log[w] = Append(@, [e |-> e, src |-> src, n |-> n])]

\* AnimationBase.start
AnimStart(s, l, w) ==
    IF s.children[l][w].running
    THEN s
    ELSE [s EXCEPT !.children[l][w].running = TRUE,
                   !.clock[l][w] = @ + 1]

\* AbsoluteAnimationBase.reset / DeltaAnimationBase.reset
AnimReset(s, l, w) ==
    IF s.children[l][w].type = "absolute"
    THEN s
    ELSE [s EXCEPT !.children[l][w] =
            [@ EXCEPT !.frame_pointer = 0,
                      !.progress = [num |-> 0, den |-> @.den],
                      !.running = FALSE,
                      !.prop_list =
                          [p \in DOMAIN params[l].props |->
                              [start |-> Snapshot(s.attr[w][p], params[l].props[p]),
                               end |-> DeltaEnd(s.attr[w][p], params[l].props[p])]]]]

\* AnimationBase._repopulate_attrib
repopulate_attrib(s, l, w) ==
    [s EXCEPT !.children[l][w].prop_list =
        [p \in DOMAIN @ |-> [start |-> Snapshot(s.attr[w][p], @[p].end),
                             end |-> @[p].end]]]

\* ------------------------------------------------------------ Animation (leaf)
\* no call has returned a flag or raised yet
NoResult == [op |-> "none", w |-> "none", val |-> "none"]

Exceptions == {"AttributeError", "ZeroDivisionError", "KeyError"}

\* the value set_widget returns
LeafSetWidgetFlag(s, l, w) == IF w \in DOMAIN s.children[l] THEN "False" ELSE "True"

\* Animation.set_widget without the test for an object already in the table:
\* a new object replaces it, as in ComplexAnimation.set_widget
LeafSetWidget_Replaces(s, l, w) ==
    [s EXCEPT !.children[l] = [x \in DOMAIN @ \cup {w} |->
                                  IF x = w THEN NewAnimObj(s, l, w, l) ELSE @[x]],
              !.stale[l][w] = @ + s.clock[l][w],
              !.clock[l][w] = 0]

\* Animation.set_widget; AnimationBase.__init__ looks the easing up by name in
\* AnimationAlpha, and the AttributeError of an unknown name leaves the call
LeafSetWidget(s, l, w) ==
    IF w \in DOMAIN s.children[l]
    THEN s
    ELSE IF params[l].f \notin Easings
    THEN [s EXCEPT !.result = [op |-> "set_widget", w |-> w, val |-> "AttributeError"]]
    ELSE [s EXCEPT !.children[l] = [x \in DOMAIN @ \cup {w} |->
                                       IF x = w THEN NewAnimObj(s, l, w, l) ELSE @[x]],
                   !.clock[l][w] = 0]

\* Animation.start; self.children[widget] raises KeyError when the animation
\* holds no object for the widget
LeafStart(s, l, w) ==
    IF w \notin DOMAIN s.children[l]
    THEN [s EXCEPT !.result = [op |-> "start", w |-> w, val |-> "KeyError"]]
    ELSE Emit(AnimStart(s, l, w), w, "on_start", l, 0)

\* Animation._del_child: the object leaves the table; the clock still holds
\* the registrations of its _next_frame
DelChild(s, l, w) ==
    [s EXCEPT !.children[l] = [x \in DOMAIN @ \ {w} |-> @[x]],
              !.stale[l][w] = @ + s.clock[l][w],
              !.clock[l][w] = 0]

\* ------------------------------------------------------------ ComplexAnimation
IsRunning(s, l, w) == w \in DOMAIN s.children[l] /\ s.children[l][w].running

RECURSIVE SetAll(_, _, _, _)
SetAll(s, w, animator, i) ==
    IF i > Len(animations)
    THEN s
    ELSE LET l == animations[i]
         IN SetAll([s EXCEPT !.children[l] =
                        [x \in DOMAIN @ \cup {w} |->
                            IF x = w THEN NewAnimObj(s, l, w, animator) ELSE @[x]],
                               !.stale[l][w] = @ + s.clock[l][w],
                               !.clock[l][w] = 0],
                   w, animator, i + 1)

\* ComplexAnimation.set_widget
ComplexSetWidget(s, w) ==
    IF \E i \in 1..Len(animations) : IsRunning(s, animations[i], w)
    THEN s
    ELSE SetAll(s, w, root, 1)

RECURSIVE StartAll(_, _, _)
StartAll(s, w, i) ==
    IF i > Len(animations) THEN s
    ELSE StartAll(LeafStart(s, animations[i], w), w, i + 1)

RECURSIVE ResetAll(_, _, _)
ResetAll(s, w, i) ==
    IF i > Len(animations) THEN s
    ELSE ResetAll(AnimReset(s, animations[i], w), w, i + 1)

\* SequenceAnimation.reset
SeqReset(s, w) == ResetAll([s EXCEPT !.anim_counter = 0], w, 1)

\* ParallelAnimation.reset
ParReset(s, w) == ResetAll([s EXCEPT !.dispatch_counter = 0], w, 1)

\* ParallelAnimation.start
ParStart(s, w) ==
    StartAll(IF s.dispatch_counter = 0 THEN Emit(s, w, "on_start", "par", 0) ELSE s,
             w, 1)

\* ------------------------------------------------------------ Repeat
RECURSIVE SeqStart(_, _)

\* the reset method of the wrapped animation
RootReset(s, w) ==
    CASE root = "seq" -> SeqReset(s, w)
      [] root = "par" -> ParReset(s, w)
      [] OTHER -> AnimReset(s, root, w)

\* the start method of the wrapped animation
RootStart(s, w) ==
    CASE root = "seq" -> SeqStart(s, w)
      [] root = "par" -> ParStart(s, w)
      [] OTHER -> LeafStart(s, root, w)

\* Repeat.start
RepeatStart(s, w) ==
    RootStart(IF s.repeat_counter = 0 THEN Emit(s, w, "on_start", "rep", 0) ELSE s, w)

\* Repeat.stop
RepeatStop(s, w) ==
    LET s1 == Emit(s, w, "on_animation_complete", "rep", 0)
        s2 == Emit(s1, w, "on_complete", "rep", 0)
        s3 == [s2 EXCEPT !.repeat_counter = 0]
    IN IF root \in {"seq", "par"} THEN s3 ELSE DelChild(s3, root, w)

\* Repeat.repeat
RepeatRepeat(s, w) ==
    LET s1 == [s EXCEPT !.repeat_counter = @ + 1]
        s2 == Emit(s1, w, "on_repeat", "rep", s1.repeat_counter)
    IN IF times = -1 \/ s2.repeat_counter < times
       THEN RepeatStart(RootReset(s2, w), w)
       ELSE RepeatStop(s2, w)

\* dispatch_event('on_complete', widget) of the animation src: the event, then
\* the handler Repeat.__init__ registered on the animation it wraps
DispatchComplete(s, w, src) ==
    LET s1 == Emit(s, w, "on_complete", src, 0)
    IN IF repeated /\ src = root THEN RepeatRepeat(s1, w) ELSE s1

\* ------------------------------------------------------------ SequenceAnimation
\* ParallelAnimation.start of a Parallel c that is a child of the Sequence: its
\* animations are its anim1 and anim2; an exception leaves the loop
NestedParStart(s, c, w) ==
    LET s0 == IF s.dispatch_counter = 0 THEN Emit(s, w, "on_start", c, 0) ELSE s
        s1 == LeafStart(s0, params[c].anim1, w)
    IN IF s1.result.val \in Exceptions THEN s1 ELSE LeafStart(s1, params[c].anim2, w)

\* current_anim.start(widget): the start method of the child's class
ChildStart(s, l, w) ==
    IF l \in Leaves THEN LeafStart(s, l, w) ELSE NestedParStart(s, l, w)

\* SequenceAnimation.start with the loop of ParallelAnimation.start: every child
\* is started instead of the current one
SeqStart_StartsAll(s, w) ==
    LET s1 == IF s.anim_counter = 0 THEN Emit(s, w, "on_start", "seq", 0) ELSE s
    IN IF s1.anim_counter >= Len(animations)
       THEN LET s2 == DispatchComplete([s1 EXCEPT !.anim_counter = 0], w, "seq")
            IN IF single_event
               THEN Emit(s2, w, "on_animation_complete", "seq", 0)
               ELSE s2
       ELSE StartAll(s1, w, 1)

\* SequenceAnimation.start
SeqStart(s, w) ==
    LET s1 == IF s.anim_counter = 0 THEN Emit(s, w, "on_start", "seq", 0) ELSE s
    IN IF s1.anim_counter >= Len(animations)
       THEN LET s2 == DispatchComplete([s1 EXCEPT !.anim_counter = 0], w, "seq")
            IN IF single_event
               THEN Emit(s2, w, "on_animation_complete", "seq", 0)
               ELSE s2
       ELSE ChildStart(s1, animations[s1.anim_counter + 1], w)

\* SequenceAnimation.stop without the test of single_event: every child that
\* generates events is notified to the widget
SeqStop_NotifiesAlways(s, w) ==
    LET cur == animations[s.anim_counter + 1]
        s1 == IF s.children[cur][w].generate_event
              THEN Emit(s, w, "on_animation_complete", "seq", 0)
              ELSE s
        s2 == [s1 EXCEPT !.anim_counter = @ + 1]
        s3 == IF s2.anim_counter < Len(animations)
              THEN repopulate_attrib(s2, animations[s2.anim_counter + 1], w)
              ELSE s2
    IN SeqStart(s3, w)

\* SequenceAnimation.stop without the call of _repopulate_attrib: the next
\* child keeps the start values taken when the sequence was attached
SeqStop_NoResnapshot(s, w) ==
    LET cur == animations[s.anim_counter + 1]
        s1 == IF s.children[cur][w].generate_event /\ ~single_event
              THEN Emit(s, w, "on_animation_complete", "seq", 0)
              ELSE s
        s2 == [s1 EXCEPT !.anim_counter = @ + 1]
    IN SeqStart(s2, w)

\* SequenceAnimation.stop
SeqStop(s, w) ==
    LET cur == animations[s.anim_counter + 1]
        s1 == IF s.children[cur][w].generate_event /\ ~single_event
              THEN Emit(s, w, "on_animation_complete", "seq", 0)
              ELSE s
        s2 == [s1 EXCEPT !.anim_counter = @ + 1]
        s3 == IF s2.anim_counter < Len(animations)
              THEN repopulate_attrib(s2, animations[s2.anim_counter + 1], w)
              ELSE s2
    IN SeqStart(s3, w)

\* ------------------------------------------------------------ ParallelAnimation
\* ParallelAnimation.stop without the reset of dispatch_counter
ParStop_NoReset(s, w, l) ==
    LET s1 == [s EXCEPT !.dispatch_counter = @ + 1]
    IN IF s1.dispatch_counter = Len(animations)
       THEN LET s2 == DispatchComplete(s1, w, "par")
            IN IF single_event
               THEN Emit(s2, w, "on_animation_complete", "par", 0)
               ELSE s2
       ELSE IF s1.children[l][w].generate_event /\ ~single_event
            THEN Emit(s1, w, "on_animation_complete", "par", 0)
            ELSE s1

\* ParallelAnimation.stop
ParStop(s, w, l) ==
    LET s1 == [s EXCEPT !.dispatch_counter = @ + 1]
    IN IF s1.dispatch_counter = Len(animations)
       THEN LET s2 == DispatchComplete(s1, w, "par")
                s3 == IF single_event
                      THEN Emit(s2, w, "on_animation_complete", "par", 0)
                      ELSE s2
            IN [s3 EXCEPT !.dispatch_counter = 0]
       ELSE IF s1.children[l][w].generate_event /\ ~single_event
            THEN Emit(s1, w, "on_animation_complete", "par", 0)
            ELSE s1

\* ------------------------------------------------------------ completion
\* Animation.stop
LeafStop(s, l, w) ==
    IF s.children[l][w].generate_event
    THEN DispatchComplete(Emit(s, w, "on_animation_complete", l, 0), w, l)
    ELSE DelChild(s, l, w)

\* AnimationBase.stop without the test of self.running
AnimStop_Unguarded(s, l, w) ==
    LET s1 == [s EXCEPT !.children[l][w].running = FALSE]
        animator == s.children[l][w].animator
    IN CASE animator = "par" -> ParStop(s1, w, l)
         [] animator = "seq" -> SeqStop(s1, w)
         [] OTHER -> LeafStop(s1, animator, w)

\* AnimationBase.stop
AnimStop(s, l, w) ==
    IF ~s.children[l][w].running
    THEN s
    ELSE LET s1 == [s EXCEPT !.children[l][w].running = FALSE]
             animator == s.children[l][w].animator
         IN CASE animator = "par" -> ParStop(s1, w, l)
              [] animator = "seq" -> SeqStop(s1, w)
              [] OTHER -> LeafStop(s1, animator, w)

\* the branch of AnimationBase._next_frame that advances (and returns True)
Advances(s, l, w) ==
    /\ s.children[l][w].frame_pointer <= s.children[l][w].duration
    /\ s.children[l][w].running

\* AnimationBase._next_frame
next_frame(s, l, w, dt) ==
    IF Advances(s, l, w)
    THEN LET obj == s.children[l][w]
             fp == obj.frame_pointer + dt
             pr == [num |-> Min(fp, obj.duration), den |-> obj.duration]
             s1 == [s EXCEPT !.children[l][w].frame_pointer = fp,
                             !.children[l][w].progress = pr]
         IN IF obj.duration = 0
            THEN [s EXCEPT !.children[l][w].frame_pointer = fp,
                           !.result = [op |-> "_next_frame", w |-> w,
                                       val |-> "ZeroDivisionError"]]
            ELSE update(s1, l, w, alpha_function(obj.alpha, pr, fp, obj.duration))
    ELSE AnimStop(s, l, w)

\* ------------------------------------------------------------ the state
State ==
    [attr |-> attr, children |-> children, anim_counter |-> anim_counter,
     dispatch_counter |-> dispatch_counter, repeat_counter |-> repeat_counter,
     clock |-> clock, log |-> log, stale |-> stale, result |-> result]

Become(s) ==
    /\ attr' = s.attr
    /\ children' = s.children
    /\ anim_counter' = s.anim_counter
    /\ dispatch_counter' = s.dispatch_counter
    /\ repeat_counter' = s.repeat_counter
    /\ clock' = s.clock
    /\ log' = s.log
    /\ stale' = s.stale
    /\ result' = s.result
    /\ UNCHANGED config

\* the set_widget method of root
RootSetWidget(s, w) ==
    IF root \in {"seq", "par"} THEN ComplexSetWidget(s, w) ELSE LeafSetWidget(s, root, w)

\* ------------------------------------------------------------ operations
\* Animation.animate(widget): set_widget, its result unused, then start
Animate(w) ==
    /\ ~repeated
    /\ root # "none"
    /\ w \in targets \ animated
    /\ animated' = animated \cup {w}
    /\ LET s1 == RootSetWidget(State, w)
       IN Become(IF s1.result.val \in Exceptions THEN s1 ELSE RootStart(s1, w))

\* One delivery by the clock of a callback registered with schedule_interval:
\* _next_frame(dt) of the animation object; the registration is removed when
\* the callback returns False.
Tick(l, w, dt) ==
    /\ w \in DOMAIN children[l]
    /\ clock[l][w] > 0
    /\ repeat_counter < MaxRepeat
    /\ LET s1 == next_frame(State, l, w, dt)
       IN Become(IF Advances(State, l, w) THEN s1
                 ELSE IF w \in DOMAIN s1.children[l]
                      THEN [s1 EXCEPT !.clock[l][w] = @ - 1]
                      ELSE [s1 EXCEPT !.stale[l][w] = @ - 1])
    /\ UNCHANGED animated

\* Animation.reset(widget), called by the user on a leaf whose object is at rest
Reset(w) ==
    /\ ~repeated
    /\ root \in Leaves
    /\ w \in DOMAIN children[root]
    /\ ~children[root][w].running
    /\ Become(AnimReset(State, root, w))
    /\ UNCHANGED animated

\* Animation.start(widget), called by the user on a leaf that holds an object
Start(w) ==
    /\ ~repeated
    /\ root \in Leaves
    /\ w \in DOMAIN children[root]
    /\ Len(log[w]) < MaxLog
    /\ Become(LeafStart(State, root, w))
    /\ UNCHANGED animated

\* Animation.set_widget(widget), called by the user; what it returns is kept
Attach(w) ==
    /\ ~repeated
    /\ root \in Leaves
    /\ w \in targets
    /\ animated' = animated \cup {w}
    /\ LET s1 == LeafSetWidget(State, root, w)
       IN Become(IF s1.result.val \in Exceptions THEN s1
                 ELSE [s1 EXCEPT !.result = [op |-> "set_widget", w |-> w,
                                             val |-> LeafSetWidgetFlag(State, root, w)]])

\* AnimationBase.stop(), called by the user on the object a leaf holds for a
\* widget; it returns False when the object was running and None otherwise
Stop(w) ==
    /\ ~repeated
    /\ root \in Leaves
    /\ w \in DOMAIN children[root]
    /\ Become([AnimStop(State, root, w) EXCEPT
                  !.result = [op |-> "stop", w |-> w,
                              val |-> IF children[root][w].running
                                      THEN "False" ELSE "None"]])
    /\ UNCHANGED animated

\* One delivery by the clock of a callback a discarded object registered: the
\* object is not running, stop() does nothing and the callback returns False
TickStale(l, w) ==
    /\ stale[l][w] > 0
    /\ Become([State EXCEPT !.stale[l][w] = @ - 1])
    /\ UNCHANGED animated

\* ------------------------------------------------------------ initial states
\* the end (or delta) a leaf declares for a property: an int or a float
Declared == {PyInt(2), PyFloat(Scale + 1)}

LeafParams(types, fs, gens, props) ==
    [type : types, duration : 1..MaxDuration, f : fs, generate_event : gens,
     props : {[p \in ps |-> IF p = "x" THEN d ELSE PyInt(1)] : ps \in props, d \in Declared}]

DefaultParams ==
    [type |-> "absolute", duration |-> 1, f |-> "linear", generate_event |-> TRUE,
     props |-> [p \in {"x"} |-> PyInt(2)]]

\* the attributes of the widgets: x is an int or a float on every widget
Attrs ==
    {[w \in Widgets |-> [x |-> IF w = "w1" THEN n ELSE Add(n, PyInt(1)), y |-> PyInt(0), z |-> PyInt(0)]] :
        n \in {PyInt(0), PyFloat(0)}}

\* linear easing and int values everywhere
Plain ==
    /\ \A l \in Leaves :
          /\ params[l].f = "linear"
          /\ \A p \in DOMAIN params[l].props : params[l].props[p].t = "int"
    /\ attr0["w1"]["x"].t = "int"

\* one widget with every choice of parameters, or two with the plain ones
InitState ==
    /\ targets \in {{"w1"}, Widgets}
    /\ targets = Widgets => Plain
    /\ attr = attr0
    /\ children = [l \in Leaves |-> <<>>]
    /\ anim_counter = 0
    /\ dispatch_counter = 0
    /\ repeat_counter = 0
    /\ clock = [l \in Leaves |-> [w \in Widgets |-> 0]]
    /\ log = [w \in Widgets |-> <<>>]
    /\ animated = {}
    /\ stale = [l \in Leaves |-> [w \in Widgets |-> 0]]
    /\ result = NoResult

\* a leaf Animation, animated on widgets
InitLeaf ==
    /\ root = "a"
    /\ params \in [Leaves -> LeafParams({"absolute", "delta"}, Easings, BOOLEAN,
                                        {{"x"}, {"x", "y"}})]
    /\ params["b"] = DefaultParams
    /\ params["c"] = DefaultParams
    /\ animations = <<>>
    /\ single_event = FALSE
    /\ repeated = FALSE
    /\ times = -1
    /\ attr0 \in Attrs
    /\ InitState

NextLeaf ==
    \/ \E w \in Widgets : Animate(w)
    \/ \E l \in Leaves, w \in Widgets, dt \in 1..MaxDt : Tick(l, w, dt)
    \/ \E w \in Widgets : Reset(w)
    \/ \E w \in Widgets : Start(w)

SpecLeaf == InitLeaf /\ [][NextLeaf]_vars

\* the controller's set_widget and start, as a widget calls them to run a Repeat
RepeatDo(w) ==
    /\ repeated
    /\ w \in targets \ animated
    /\ animated' = animated \cup {w}
    /\ Become(RepeatStart(RootSetWidget(State, w), w))

\* a + b animated on widgets: both leaves animate x
InitSeq ==
    /\ root = "seq"
    /\ params \in [Leaves -> LeafParams({"absolute", "delta"}, Easings, BOOLEAN, {{"x"}})]
    /\ params["a"].f = params["b"].f
    /\ animations \in {<<"a", "b">>, <<"a", "b", "c">>}
    /\ params["c"] = IF Len(animations) = 3 THEN params["a"] ELSE DefaultParams
    /\ single_event \in BOOLEAN
    /\ repeated = FALSE
    /\ times = -1
    /\ attr0 \in Attrs
    /\ InitState
    /\ Len(animations) = 3 => (targets = {"w1"} /\ Plain)

NextSeq ==
    \/ \E w \in Widgets : Animate(w)
    \/ \E l \in Leaves, w \in Widgets, dt \in 1..MaxDt : Tick(l, w, dt)

SpecSeq == InitSeq /\ [][NextSeq]_vars

\* a & b and a & b & c animated on widgets: a animates x, b animates y, c animates z
InitPar ==
    /\ root = "par"
    /\ params \in [Leaves -> LeafParams({"absolute", "delta"}, Easings, BOOLEAN,
                                        {{"x"}, {"y"}, {"z"}})]
    /\ DOMAIN params["a"].props = {"x"}
    /\ DOMAIN params["b"].props = {"y"}
    /\ params["a"].f = params["b"].f
    /\ animations \in {<<"a", "b">>, <<"a", "b", "c">>}
    /\ params["c"] = IF Len(animations) = 3
                     THEN [params["a"] EXCEPT !.props = [p \in {"z"} |-> PyInt(1)]]
                     ELSE DefaultParams
    /\ single_event \in BOOLEAN
    /\ repeated = FALSE
    /\ times = -1
    /\ attr0 \in Attrs
    /\ InitState
    /\ targets = Widgets =>
          /\ \A l \in Leaves : params[l].type = "absolute"
          /\ params["b"].duration = 1
    /\ Len(animations) = 3 => (targets = {"w1"} /\ Plain)

NextPar ==
    \/ \E w \in Widgets : Animate(w)
    \/ \E l \in Leaves, w \in Widgets, dt \in 1..MaxDt : Tick(l, w, dt)

SpecPar == InitPar /\ [][NextPar]_vars

\* a Sequence or a Parallel with single_event set, animated on one widget
InitSingle ==
    /\ single_event = TRUE
    /\ targets = {"w1"}
    /\ (InitSeq \/ InitPar)

NextSingle ==
    \/ \E w \in Widgets : Animate(w)
    \/ \E l \in Leaves, w \in Widgets, dt \in 1..MaxDt : Tick(l, w, dt)

SpecSingle == InitSingle /\ [][NextSingle]_vars

\* animate(widget) of a Sequence or Parallel that has been animated on the
\* widget before: set_widget, its result unused, then start
Reanimate(w) ==
    /\ ~repeated
    /\ root \in {"seq", "par"}
    /\ w \in animated
    /\ Len(log[w]) < MaxLog
    /\ Become(RootStart(RootSetWidget(State, w), w))
    /\ UNCHANGED animated

\* a Sequence or a Parallel of two leaves, animated on one widget again and again
InitReanimate ==
    /\ targets = {"w1"}
    /\ animations = <<"a", "b">>
    /\ (InitSeq \/ InitPar)

NextReanimate ==
    \/ \E w \in Widgets : Animate(w)
    \/ \E w \in Widgets : Reanimate(w)
    \/ \E l \in Leaves, w \in Widgets, dt \in 1..MaxDt : Tick(l, w, dt)

SpecReanimate == InitReanimate /\ [][NextReanimate]_vars

\* Repeat(a, times = n) and Repeat(a): the controller wraps the leaf a
InitRepeat ==
    /\ root = "a"
    /\ params \in [Leaves -> LeafParams({"absolute", "delta"}, Easings, BOOLEAN, {{"x"}})]
    /\ params["b"] = DefaultParams
    /\ params["c"] = DefaultParams
    /\ animations = <<>>
    /\ single_event = FALSE
    /\ repeated = TRUE
    /\ times \in {-1} \cup 1..MaxTimes
    /\ attr0 \in Attrs
    /\ InitState

NextRepeat ==
    \/ \E w \in Widgets : RepeatDo(w)
    \/ \E l \in Leaves, w \in Widgets, dt \in 1..MaxDt : Tick(l, w, dt)

SpecRepeat == InitRepeat /\ [][NextRepeat]_vars

\* the clock calls every registered callback on each of its frames: while a
\* callback stays registered for a widget, one is eventually delivered
TickFairness ==
    \A w \in Widgets : WF_vars(\E l \in Leaves, dt \in 1..MaxDt : Tick(l, w, dt))

SpecRepeatLive == SpecRepeat /\ TickFairness

\* a leaf Animation and the calls a user makes on it and on its objects
InitCalls ==
    /\ root = "a"
    /\ params \in [Leaves -> LeafParams({"absolute", "delta"}, Easings, BOOLEAN, {{"x"}})]
    /\ params["b"] = DefaultParams
    /\ params["c"] = DefaultParams
    /\ animations = <<>>
    /\ single_event = FALSE
    /\ repeated = FALSE
    /\ times = -1
    /\ attr0 \in Attrs
    /\ InitState
    /\ targets = {"w1"}

NextCalls ==
    \/ \E w \in Widgets : Animate(w)
    \/ \E w \in Widgets : Attach(w)
    \/ \E w \in Widgets : Start(w)
    \/ \E w \in Widgets : Stop(w)
    \/ \E l \in Leaves, w \in Widgets, dt \in 1..MaxDt : Tick(l, w, dt)
    \/ \E l \in Leaves, w \in Widgets : TickStale(l, w)

SpecCalls == InitCalls /\ [][NextCalls]_vars

\* a leaf Animation on one widget: any interleaving of animate, start, stop,
\* reset and the deliveries of the clock
NextInterleave ==
    \/ \E w \in Widgets : Animate(w)
    \/ \E w \in Widgets : Start(w)
    \/ \E w \in Widgets : Stop(w)
    \/ \E w \in Widgets : Reset(w)
    \/ \E l \in Leaves, w \in Widgets, dt \in 1..MaxDt : Tick(l, w, dt)
    \/ \E l \in Leaves, w \in Widgets : TickStale(l, w)

SpecInterleave == InitCalls /\ [][NextInterleave]_vars

\* a leaf Animation animated on two widgets, its objects ticked and stopped
InitTargets ==
    /\ root = "a"
    /\ params \in [Leaves -> LeafParams({"absolute", "delta"}, Easings, BOOLEAN,
                                        {{"x"}, {"x", "y"}})]
    /\ params["b"] = DefaultParams
    /\ params["c"] = DefaultParams
    /\ animations = <<>>
    /\ single_event = FALSE
    /\ repeated = FALSE
    /\ times = -1
    /\ attr0 \in Attrs
    /\ InitState
    /\ targets = Widgets

NextTargets ==
    \/ \E w \in Widgets : Animate(w)
    \/ \E w \in Widgets : Stop(w)
    \/ \E l \in Leaves, w \in Widgets, dt \in 1..MaxDt : Tick(l, w, dt)
    \/ \E l \in Leaves, w \in Widgets : TickStale(l, w)

SpecTargets == InitTargets /\ [][NextTargets]_vars

\* ------------------------------------------------------------ nested values
\* a property's live value and the value an animation declares for it, of the
\* same shape: numbers, a list, a tuple holding a list, a dict holding a tuple
\* (of the dict only the keys r and g are animated)
InterpCases ==
    {[start |-> PyInt(1), declared |-> PyInt(-2)],
     [start |-> PyFloat(1), declared |-> PyInt(2)],
     [start |-> PyList(<<PyInt(0), PyInt(0), PyInt(0)>>),
      declared |-> PyList(<<PyInt(10), PyInt(20), PyInt(30)>>)],
     [start |-> PyList(<<PyInt(1), PyFloat(0), PyInt(0)>>),
      declared |-> PyList(<<PyInt(-2), PyInt(1), PyFloat(Scale + 1)>>)],
     [start |-> PyTuple(<<PyInt(0), PyList(<<PyInt(1), PyFloat(0)>>)>>),
      declared |-> PyTuple(<<PyInt(3), PyList(<<PyInt(-2), PyInt(1)>>)>>)],
     [start |-> PyDict([key \in {"r", "g", "b"} |->
                          IF key = "g" THEN PyTuple(<<PyFloat(0), PyInt(1)>>) ELSE PyInt(0)]),
      declared |-> PyDict([key \in {"r", "g"} |->
                             IF key = "g" THEN PyTuple(<<PyInt(1), PyInt(-2)>>) ELSE PyInt(3)])]}

\* a value that holds no list, tuple or dict inside a list or tuple: the ones
\* whose sum with a delta has the shape of the value
Summable(v) ==
    \/ v.k = "num"
    \/ IsSeq(v) /\ \A i \in 1..Len(v.items) : v.items[i].k = "num"
    \/ v.k = "dict"

\* a leaf that animates the property x, a nested value, of one widget
InitInterp ==
    /\ root = "a"
    /\ \E c \in InterpCases :
          /\ params \in [Leaves -> [type : {"absolute", "delta"}, duration : 1..MaxDuration,
                                    f : Easings, generate_event : BOOLEAN,
                                    props : {[p \in {"x"} |-> c.declared]}]
                                   \cup {DefaultParams}]
          /\ params["a"].props["x"] = c.declared
          /\ params["a"].type = "delta" => Summable(c.start)
          /\ attr0 = [w \in Widgets |-> [x |-> c.start, y |-> PyInt(0), z |-> PyInt(0)]]
    /\ params["b"] = DefaultParams
    /\ params["c"] = DefaultParams
    /\ animations = <<>>
    /\ single_event = FALSE
    /\ repeated = FALSE
    /\ times = -1
    /\ targets = {"w1"}
    /\ InitState

NextInterp ==
    \/ \E w \in Widgets : Animate(w)
    \/ \E l \in Leaves, w \in Widgets, dt \in 1..MaxDt : Tick(l, w, dt)

SpecInterp == InitInterp /\ [][NextInterp]_vars

\* ------------------------------------------------------------ nesting
\* the params of a & b: the keyword arguments anim1 and anim2 and the defaults
\* of Animation.__init__; it declares no property, names no easing function
\* (linear is used) and no generate_event (True is used)
ParParams ==
    [type |-> "absolute", duration |-> 1, f |-> "linear", generate_event |-> TRUE,
     props |-> <<>>, anim1 |-> "a", anim2 |-> "b"]

\* (a & b) + c: the Sequence holds the Parallel and c; a animates x, b y, c z
InitNested ==
    /\ root = "seq"
    /\ animations = <<"par", "c">>
    /\ \E lp \in [Leaves -> LeafParams({"absolute", "delta"}, {"linear"}, BOOLEAN,
                                        {{"x"}, {"y"}, {"z"}})] :
          /\ DOMAIN lp["a"].props = {"x"}
          /\ DOMAIN lp["b"].props = {"y"}
          /\ lp["c"] = [DefaultParams EXCEPT !.props = [p \in {"z"} |-> PyInt(1)]]
          /\ params = [l \in Leaves \cup {"par"} |-> IF l = "par" THEN ParParams ELSE lp[l]]
    /\ single_event = FALSE
    /\ repeated = FALSE
    /\ times = -1
    /\ attr0 \in Attrs
    /\ attr0["w1"]["x"].t = "int"
    /\ targets = {"w1"}
    /\ attr = attr0
    /\ children = [l \in Leaves \cup {"par"} |-> <<>>]
    /\ anim_counter = 0
    /\ dispatch_counter = 0
    /\ repeat_counter = 0
    /\ clock = [l \in Leaves \cup {"par"} |-> [w \in Widgets |-> 0]]
    /\ log = [w \in Widgets |-> <<>>]
    /\ animated = {}
    /\ stale = [l \in Leaves \cup {"par"} |-> [w \in Widgets |-> 0]]
    /\ result = NoResult

\* l.animate(widget), called by the user, once, on a leaf the composite holds,
\* before the composite is animated on the widget
AnimateChild(l, w) ==
    /\ root \in {"seq", "par"}
    /\ w \in targets \ animated
    /\ \A i \in 1..Len(log[w]) : log[w][i] # [e |-> "on_start", src |-> l, n |-> 0]
    /\ LET s1 == LeafSetWidget(State, l, w)
       IN Become(IF s1.result.val \in Exceptions THEN s1 ELSE LeafStart(s1, l, w))
    /\ UNCHANGED animated

\* an exception that nothing in the engine catches ends the run
NextNested ==
    /\ result.val \notin Exceptions
    /\ \/ \E l \in {"a", "b"}, w \in Widgets : AnimateChild(l, w)
       \/ \E w \in Widgets : Animate(w)
       \/ \E l \in Leaves, w \in Widgets, dt \in 1..MaxDt : Tick(l, w, dt)

SpecNested == InitNested /\ [][NextNested]_vars

\* ------------------------------------------------------------ construction
\* the keyword arguments a user may pass to Animation(...): any duration, any
\* name for the easing function
Kwargs ==
    [type : {"absolute", "delta"}, duration : -1..MaxDuration,
     f : Easings \cup {"no_such_easing"}, generate_event : BOOLEAN,
     props : {[p \in {"x"} |-> PyInt(2)]}]

\* Animation.__init__: the keyword arguments are stored as they are
Construct(l, kw) ==
    /\ root = "none"
    /\ root' = l
    /\ params' = [params EXCEPT ![l] = kw]
    /\ UNCHANGED <<animations, single_event, repeated, times, attr, children,
                   anim_counter, dispatch_counter, repeat_counter, clock, log,
                   attr0, targets, animated, stale, result>>

InitConstruct ==
    /\ root = "none"
    /\ params = [l \in Leaves |-> DefaultParams]
    /\ animations = <<>>
    /\ single_event = FALSE
    /\ repeated = FALSE
    /\ times = -1
    /\ attr0 \in Attrs
    /\ InitState
    /\ targets = {"w1"}

\* an exception that nothing in the engine catches ends the run
NextConstruct ==
    /\ result.val \notin Exceptions
    /\ \/ \E kw \in Kwargs : Construct("a", kw)
       \/ \E w \in Widgets : Animate(w)
       \/ \E w \in Widgets : Attach(w)
       \/ \E w \in Widgets : Start(w)
       \/ \E l \in Leaves, w \in Widgets, dt \in 1..MaxDt : Tick(l, w, dt)

SpecConstruct == InitConstruct /\ [][NextConstruct]_vars

\* ------------------------------------------------------------ composition
\* An animation as a value: a leaf, or a composite with its child list
Leaf(l) == [kind |-> "leaf", name |-> l, animations |-> <<>>]

\* ComplexAnimation.__init__: anim1 is a list of animations (is_list) or one
\* animation; anim2 is appended as it is
ComplexAnimationInit(kind, is_list, anim1, anim2) ==
    [kind |-> kind, name |-> kind,
     animations |-> (IF is_list THEN anim1 ELSE <<anim1>>) \o <<anim2>>]

\* self + animation: SequenceAnimation.__add__ when self is a Sequence,
\* Animation.__add__ otherwise
add(self, animation) ==
    IF self.kind = "seq"
    THEN ComplexAnimationInit("seq", TRUE, self.animations, animation)
    ELSE ComplexAnimationInit("seq", FALSE, self, animation)

\* self & animation: ParallelAnimation.__and__ when self is a Parallel,
\* Animation.__and__ otherwise
and(self, animation) ==
    IF self.kind = "par"
    THEN ComplexAnimationInit("par", TRUE, self.animations, animation)
    ELSE ComplexAnimationInit("par", FALSE, self, animation)

Compose(kind, A, B) == IF kind = "seq" THEN add(A, B) ELSE and(A, B)

\* the number of leaves in an animation
RECURSIVE Size(_)
RECURSIVE SizeAll(_, _)
Size(V) == IF V.kind = "leaf" THEN 1 ELSE SizeAll(V.animations, 1)
SizeAll(list, i) == IF i > Len(list) THEN 0 ELSE Size(list[i]) + SizeAll(list, i + 1)

\* the animation the user holds
Self ==
    IF root \in Leaves THEN Leaf(root)
    ELSE [kind |-> root, name |-> root, animations |-> animations]

\* the animations the user composes it with: the leaves, and a + b, a & b
Operands ==
    {Leaf(l) : l \in Leaves}
    \cup {Compose(k, Leaf(x), Leaf(y)) : k \in {"seq", "par"}, x \in {"a"}, y \in {"b", "c"}}

\* Self + B or Self & B
ComposeRight(kind, B) ==
    /\ Size(Self) + Size(B) <= MaxChildren
    /\ root' = kind
    /\ animations' = Compose(kind, Self, B).animations
    /\ UNCHANGED <<params, single_event, repeated, times, attr, children,
                   anim_counter, dispatch_counter, repeat_counter, clock, log,
                   attr0, targets, animated, stale, result>>

\* A + Self or A & Self
ComposeLeft(kind, A) ==
    /\ Size(A) + Size(Self) <= MaxChildren
    /\ root' = kind
    /\ animations' = Compose(kind, A, Self).animations
    /\ UNCHANGED <<params, single_event, repeated, times, attr, children,
                   anim_counter, dispatch_counter, repeat_counter, clock, log,
                   attr0, targets, animated, stale, result>>

InitCompose ==
    /\ root \in Leaves
    /\ params = [l \in Leaves |-> DefaultParams]
    /\ animations = <<>>
    /\ single_event = FALSE
    /\ repeated = FALSE
    /\ times = -1
    /\ attr0 \in Attrs
    /\ InitState
    /\ targets = {"w1"}

NextCompose ==
    \/ \E kind \in {"seq", "par"}, B \in Operands : ComposeRight(kind, B)
    \/ \E kind \in {"seq", "par"}, A \in Operands : ComposeLeft(kind, A)

SpecCompose == InitCompose /\ [][NextCompose]_vars

\* ------------------------------------------------------------ reading the log
Count(w, e, src) ==
    Cardinality({i \in 1..Len(log[w]) : log[w][i].e = e /\ log[w][i].src = src})

\* the object of leaf l for w has finished a run and is at rest
AtRest(l, w) ==
    /\ w \in DOMAIN children[l]
    /\ ~children[l][w].running
    /\ children[l][w].frame_pointer > children[l][w].duration

\* the completion hook of leaf l has fired for w: Animation.stop dispatched the
\* events, or discarded the object
Completed(l, w) ==
    \/ Count(w, "on_complete", l) > 0
    \/ w \in animated /\ w \notin DOMAIN children[l]

\* n as a value of the kind of v
As(v, n) == Cast(v.t, n.v, 1)

E(e, src, n) == [e |-> e, src |-> src, n |-> n]

IsPrefix(s, u) == Len(s) <= Len(u) /\ \A i \in 1..Len(s) : s[i] = u[i]

IsLeafStart(ev) == ev.e = "on_start" /\ ev.src \in Leaves
IsRepeat(ev) == ev.e = "on_repeat"

\* the leaves started for w, in order
LeafStarts(w) ==
    LET evs == SelectSeq(log[w], IsLeafStart)
    IN [i \in 1..Len(evs) |-> evs[i].src]

\* the counts on_repeat was dispatched with for w, in order
RepeatCounts(w) ==
    LET evs == SelectSeq(log[w], IsRepeat)
    IN [i \in 1..Len(evs) |-> evs[i].n]

\* every child of the composite has finished its run for w
AllAtRest(w) == \A i \in 1..Len(animations) : AtRest(animations[i], w)

\* nothing is registered with the clock for w any more
Quiet(w) == w \in animated /\ \A l \in Leaves : clock[l][w] = 0 /\ stale[l][w] = 0

OneTarget == targets = {"w1"}

\* the log of one run of the sequence for one widget, every child notifying
RECURSIVE ChildEvents(_)
ChildEvents(i) ==
    IF i > Len(animations) THEN <<>>
    ELSE <<E("on_start", animations[i], 0), E("on_animation_complete", "seq", 0)>>
         \o ChildEvents(i + 1)

SeqRunLog == <<E("on_start", "seq", 0)>> \o ChildEvents(1) \o <<E("on_complete", "seq", 0)>>

\* ------------------------------------------------------------ the claims

\* C1: a Sequence of n Absolute leaves with generate_event set and single_event
\* unset, run on one widget: the widget gets one notification per child, the
\* i-th after child i has finished and before child i+1 is started, and when the
\* sequence has completed the animated properties equal the targets the last
\* child declares (as values of the properties' kind).
C1_SequenceNotifiesAndEnds ==
    (/\ root = "seq" /\ OneTarget /\ ~single_event
     /\ \A i \in 1..Len(animations) :
           /\ params[animations[i]].type = "absolute"
           /\ params[animations[i]].generate_event)
    => /\ IsPrefix(log["w1"], SeqRunLog)
       /\ \A i \in 1..Len(animations) :
             Count("w1", "on_animation_complete", "seq") >= i
             => AtRest(animations[i], "w1")
       /\ Count("w1", "on_complete", "seq") > 0
          => LET last == animations[Len(animations)]
             IN \A p \in DOMAIN params[last].props :
                   attr["w1"][p] = As(attr0["w1"][p], params[last].props[p])

\* C2: a Sequence animated on two widgets: for each widget the children are
\* started once each, in order, and on_complete is dispatched for the widget at
\* most once and only when every child has finished its run for that widget.
C2_SequencePerTarget ==
    (root = "seq" /\ targets = Widgets)
    => \A w \in Widgets :
          /\ IsPrefix(LeafStarts(w), animations)
          /\ Count(w, "on_complete", "seq") <= 1
          /\ Count(w, "on_complete", "seq") = 1 => AllAtRest(w)

\* C3: a Parallel animated on two widgets: on_complete is dispatched for a
\* widget at most once and only when every child has finished its run for that
\* widget.
C3_ParallelPerTarget ==
    (root = "par" /\ targets = Widgets)
    => \A w \in Widgets :
          /\ Count(w, "on_complete", "par") <= 1
          /\ Count(w, "on_complete", "par") = 1 => AllAtRest(w)

\* C4: a Repeat with limit N run on two widgets: for each widget on_repeat is
\* dispatched with the counts 1, 2, ... in order, and the Repeat's on_complete
\* at most once, after the widget's own N-th repetition.
C4_RepeatPerTarget ==
    (repeated /\ targets = Widgets /\ times >= 1)
    => \A w \in Widgets :
          /\ \A i \in 1..Len(RepeatCounts(w)) : RepeatCounts(w)[i] = i
          /\ Count(w, "on_complete", "rep") <= 1
          /\ Count(w, "on_complete", "rep") = 1 => Len(RepeatCounts(w)) = times

\* C5: a Parallel run on one widget: on_complete has been dispatched, once,
\* exactly when every child has finished its run for the widget, never before;
\* the completed count is the number of finished children while some child is
\* still running and is back at 0 once on_complete has been dispatched.
C5_ParallelCompletesOnce ==
    (root = "par" /\ OneTarget)
    => /\ Count("w1", "on_complete", "par") = (IF AllAtRest("w1") THEN 1 ELSE 0)
       /\ dispatch_counter =
             (IF AllAtRest("w1") THEN 0
              ELSE Cardinality({i \in 1..Len(animations) : AtRest(animations[i], "w1")}))

C5_Witness ==
    /\ root = "par" /\ OneTarget
    /\ Len(animations) = 3
    /\ Count("w1", "on_complete", "par") = 1
    /\ AllAtRest("w1")
    /\ dispatch_counter = 0

\* C6: a Parallel of two leaves of equal duration with generate_event set and
\* single_event unset, run to completion on one widget: the widget has got as
\* many per-child notifications as the Parallel has children.
C6_ParallelNotifiesEachChild ==
    (/\ root = "par" /\ OneTarget /\ ~single_event
     /\ Len(animations) = 2
     /\ params["a"].duration = params["b"].duration
     /\ params["a"].generate_event /\ params["b"].generate_event
     /\ Count("w1", "on_complete", "par") = 1)
    => Count("w1", "on_animation_complete", "par") = Len(animations)

\* C7: Repeat(spec, times = N) around a Delta leaf, run on one widget until
\* nothing is left to tick: on_repeat was dispatched N times, with the counts
\* 1..N in order, the leaf was started N times, and the Repeat's on_complete was
\* dispatched once, as the last event of the run.
C7_RepeatRunsNTimes ==
    (/\ repeated /\ root \in Leaves /\ OneTarget /\ times >= 1
     /\ params[root].type = "delta"
     /\ Quiet("w1"))
    => /\ RepeatCounts("w1") = [i \in 1..times |-> i]
       /\ Count("w1", "on_start", root) = times
       /\ Count("w1", "on_complete", "rep") = 1
       /\ log["w1"][Len(log["w1"])] = E("on_complete", "rep", 0)

\* C8: when the completion hook of an Absolute leaf has fired for a widget,
\* every animated property of the widget equals the end value the leaf
\* declares (as a value of the property's kind).
C8_AbsoluteEndsAtDeclared ==
    \A w \in Widgets :
        (root \in Leaves /\ ~repeated /\ params[root].type = "absolute"
         /\ Completed(root, w))
        => \A p \in DOMAIN params[root].props :
              attr[w][p] = As(attr0[w][p], params[root].props[p])

\* S + D and (S + D) + D as values of the kind of S, for the property p of w
AfterOne(w, p) == As(attr0[w][p], Add(attr0[w][p], params[root].props[p]))
AfterTwo(w, p) == As(attr0[w][p], Add(AfterOne(w, p), params[root].props[p]))

\* C9: a Delta leaf with delta D on a property whose value is S at attach:
\* after one full run the property is S + D, and after reset() and a second
\* full run it is (S + D) + D.
C9_DeltaAddsPerRun ==
    \A w \in Widgets :
        (root \in Leaves /\ ~repeated /\ params[root].type = "delta")
        => \A p \in DOMAIN params[root].props :
              /\ (Count(w, "on_complete", root) = 1 /\ AtRest(root, w))
                 => attr[w][p] = AfterOne(w, p)
              /\ (w \in animated /\ w \notin DOMAIN children[root])
                 => attr[w][p] = AfterOne(w, p)
              /\ (/\ Count(w, "on_complete", root) = 2 /\ AtRest(root, w)
                  /\ children[root][w].prop_list[p].start # attr0[w][p])
                 => attr[w][p] = AfterTwo(w, p)

\* C10: a Sequence run on one widget: at most one child is running for the
\* widget at any time, and a child has been started only if the child before
\* it has finished its run.
C10_SequenceOneAtATime ==
    (root = "seq" /\ OneTarget)
    => /\ Cardinality({i \in 1..Len(animations) : IsRunning(State, animations[i], "w1")}) <= 1
       /\ \A i \in 2..Len(animations) :
             Count("w1", "on_start", animations[i]) > 0
             => AtRest(animations[i - 1], "w1")

C10_Witness ==
    /\ root = "seq" /\ OneTarget
    /\ Len(animations) = 3
    /\ AtRest("a", "w1")
    /\ AtRest("b", "w1")
    /\ IsRunning(State, "c", "w1")
    /\ children["c"]["w1"].frame_pointer > 0

\* the object root holds for w (none: the empty sequence), and all that the
\* engine keeps or writes for the pair (root, w)
Obj(w) == IF w \in DOMAIN children[root] THEN <<children[root][w]>> ELSE <<>>
Running(w) == IsRunning(State, root, w)
PerTarget(w) == <<Obj(w), attr[w], log[w], clock[root][w], stale[root][w]>>

\* C11: one leaf animated on two widgets: a step (animate, tick, completion,
\* stop) that changes the object, the properties, the events or the clock
\* registrations of one widget changes none of another widget; and the
\* completion hook fires once for each run of each widget: on_complete is
\* dispatched for a widget exactly in the step that ends the widget's own run
\* (with generate_event unset the object is discarded in that step instead).
C11_TargetsIndependent ==
    [][\A w \in Widgets :
          /\ PerTarget(w)' # PerTarget(w)
             => \A v \in Widgets \ {w} : PerTarget(v)' = PerTarget(v)
          /\ Count(w, "on_complete", root)' - Count(w, "on_complete", root)
                = (IF Running(w) /\ ~Running(w)' /\ params[root].generate_event
                   THEN 1 ELSE 0)
          /\ (Running(w) /\ ~Running(w)' /\ ~params[root].generate_event)
             => Obj(w)' = <<>>]_vars

C11_Witness ==
    /\ root \in Leaves /\ targets = Widgets
    /\ Count("w1", "on_complete", root) = 1
    /\ AtRest(root, "w1")
    /\ attr["w1"] # attr0["w1"]
    /\ Running("w2")
    /\ children[root]["w2"].frame_pointer > 0
    /\ Count("w2", "on_complete", root) = 0

\* C12: stop() on the object a leaf holds for a widget unregisters it from the
\* clock before returning: in the state right after the call, no registration
\* of an object of that leaf and widget is left, so no later tick runs it.
C12_StopUnregisters ==
    [][\A w \in Widgets :
          Stop(w) => (clock[root][w]' = 0 /\ stale[root][w]' = 0)]_vars

\* C13: stop() called on an object that is not running (it has been stopped
\* already) changes no object, no counter, no property of a widget and no
\* clock registration, and dispatches no event.
C13_StopIdempotent ==
    [][\A w \in Widgets :
          (Stop(w) /\ ~Running(w))
          => UNCHANGED <<attr, children, log, clock, stale, anim_counter,
                         dispatch_counter, repeat_counter, config>>]_vars

\* stop() has just returned None for an object stopped in the middle of a run
C13_Witness ==
    /\ root \in Leaves
    /\ result = [op |-> "stop", w |-> "w1", val |-> "None"]
    /\ "w1" \in DOMAIN children[root]
    /\ ~Running("w1")
    /\ children[root]["w1"].frame_pointer > 0
    /\ children[root]["w1"].frame_pointer <= children[root]["w1"].duration
    /\ Count("w1", "on_complete", root) = 1

\* C14: a leaf that is not wrapped by a Repeat holds no object for a widget
\* once its run on the widget has finished, whatever generate_event is: no
\* object is left in the table with its frame pointer past the duration and
\* not running, so that set_widget creates a new object with frame pointer 0.
C14_FinishedInstanceDestroyed ==
    (root \in Leaves /\ ~repeated)
    => \A w \in Widgets : ~AtRest(root, w)

\* C15: set_widget of a leaf for a widget whose object is running returns
\* False without raising and changes nothing: the object stays in the table
\* with its frame pointer, progress, property bindings and running flag, and
\* no property of the widget, event or clock registration changes.
C15_ReattachRejected ==
    [][\A w \in Widgets :
          (Attach(w) /\ Running(w))
          => /\ result' = [op |-> "set_widget", w |-> w, val |-> "False"]
             /\ UNCHANGED <<children, attr, log, clock, stale, config>>]_vars

\* set_widget has returned False for an object that has been running, and
\* ticked, since the widget was animated
C15_Witness ==
    /\ root \in Leaves
    /\ result = [op |-> "set_widget", w |-> "w1", val |-> "False"]
    /\ Running("w1")
    /\ children[root]["w1"].frame_pointer > 0
    /\ Count("w1", "on_start", root) = 1
    /\ Count("w1", "on_complete", root) = 0
    /\ params[root].generate_event

\* C16: over any calls of set_widget, start, animate and stop and any ticks on
\* a widget, a leaf dispatches on_start for the widget once per run begun: in
\* each step the number of on_start events grows by one if the widget's object
\* goes from not running to running, and not at all otherwise.
C16_StartOncePerRun ==
    [][\A w \in Widgets :
          Count(w, "on_start", root)' - Count(w, "on_start", root)
            = (IF ~Running(w) /\ Running(w)' THEN 1 ELSE 0)]_vars

\* C17: attaching, starting and running a Sequence on a widget changes no
\* child's own state: the parameters of every child and the table of objects
\* every child holds per widget stay as they were.
C17_ChildSpecsUntouched ==
    [][(root \in {"seq", "par"})
       => \A i \in 1..Len(animations) :
             (/\ params[animations[i]]' = params[animations[i]]
              /\ children[animations[i]]' = children[animations[i]])]_vars

\* the child list an operand contributes: itself if a leaf, else its children
ChildList(V) == IF V.kind = "leaf" THEN <<V>> ELSE V.animations

\* a leaf, or a composite of this kind whose children are all leaves
IsFlat(V, kind) ==
    \/ V.kind = "leaf"
    \/ V.kind = kind /\ \A i \in 1..Len(V.animations) : V.animations[i].kind = "leaf"

\* C18: for operands A and B that are leaves or composites of the same kind
\* with leaf children, the child list of A + B (of A & B) is the child list
\* of A followed by that of B, with no Sequence (no Parallel) in it, whether the
\* composite operand is on the left, on the right, or on both sides.
C18_CompositionFlattens ==
    [][\A kind \in {"seq", "par"}, V \in Operands :
          (IsFlat(Self, kind) /\ IsFlat(V, kind))
          => /\ ComposeRight(kind, V) => animations' = ChildList(Self) \o ChildList(V)
             /\ ComposeLeft(kind, V) => animations' = ChildList(V) \o ChildList(Self)]_vars

\* C19: constructing an animation with a duration of 0 or less fails: no
\* animation exists with such a duration, and none has an object attached to
\* a widget or ticked.
C19_InvalidDurationRejected ==
    /\ root \in Leaves => params[root].duration > 0
    /\ \A l \in Leaves, w \in Widgets :
          w \in DOMAIN children[l] => children[l][w].duration > 0
    /\ result.val # "ZeroDivisionError"

\* C20: constructing an animation with the name of an easing function that
\* AnimationAlpha does not have fails at once: no animation exists with such
\* a name, and no later call (set_widget, a tick) fails on it.
C20_UnknownEasingRejected ==
    /\ root \in Leaves => params[root].f \in Easings
    /\ result.val # "AttributeError"

\* start * (1 - t) + end * t as a value of the kind of start, t a ratio
Lerp(v0, v1, t) == Cast(v0.t, v0.v * (t.den - t.num) + v1.v * t.num, t.den)

\* r holds, position by position, the interpolation of the numbers of v0 and
\* v1, which hold numbers only
InterpFlat(r, v0, v1, t) ==
    IF v0.k = "num" THEN r = Lerp(v0, v1, t)
    ELSE IF IsSeq(v0)
    THEN /\ IsSeq(r) /\ Len(r.items) = Len(v0.items)
         /\ \A i \in 1..Len(v0.items) : r.items[i] = Lerp(v0.items[i], v1.items[i], t)
    ELSE /\ r.k = "dict" /\ DOMAIN r.items = DOMAIN v0.items
         /\ \A key \in DOMAIN v0.items : r.items[key] = Lerp(v0.items[key], v1.items[key], t)

\* the same for values that hold numbers or values of numbers; an element
\* that is a list, a tuple or a dict is one of the same kind in r
InterpNested(r, v0, v1, t) ==
    IF v0.k = "num" THEN r = Lerp(v0, v1, t)
    ELSE IF IsSeq(v0)
    THEN /\ IsSeq(r) /\ Len(r.items) = Len(v0.items)
         /\ \A i \in 1..Len(v0.items) :
               /\ r.items[i].k = v0.items[i].k
               /\ InterpFlat(r.items[i], v0.items[i], v1.items[i], t)
    ELSE /\ r.k = "dict" /\ DOMAIN r.items = DOMAIN v0.items
         /\ \A key \in DOMAIN v0.items :
               /\ r.items[key].k = v0.items[key].k
               /\ InterpFlat(r.items[key], v0.items[key], v1.items[key], t)

\* C21: once an object has been ticked, every property it animates holds the
\* interpolation of the object's start and end values at the eased progress t:
\* a number is start * (1 - t) + end * t as a value of the kind of start (an int
\* stays an int, a float a float), a list, tuple or dict holds, element by
\* element and key by key, the interpolation of the elements, nested values
\* keeping their kind.
C21_InterpolationElementwise ==
    \A l \in Leaves, w \in Widgets :
        (w \in DOMAIN children[l] /\ children[l][w].frame_pointer > 0)
        => LET obj == children[l][w]
               t == alpha_function(obj.alpha, obj.progress, obj.frame_pointer, obj.duration)
           IN \A p \in DOMAIN obj.prop_list :
                 InterpNested(attr[w][p], obj.prop_list[p].start, obj.prop_list[p].end, t)

\* start = [0, 0, 0], end = [10, 20, 30], progress 0.5: [5, 10, 15], all ints
C21_Witness ==
    /\ "w1" \in DOMAIN children["a"]
    /\ children["a"]["w1"].alpha = "linear"
    /\ children["a"]["w1"].progress = [num |-> 1, den |-> 2]
    /\ children["a"]["w1"].prop_list["x"].start = PyList(<<PyInt(0), PyInt(0), PyInt(0)>>)
    /\ children["a"]["w1"].prop_list["x"].end = PyList(<<PyInt(10), PyInt(20), PyInt(30)>>)
    /\ attr["w1"]["x"] = PyList(<<PyInt(5), PyInt(10), PyInt(15)>>)

\* C22: every property binding of a Delta object has end = start + the delta
\* the leaf declares, the start being the live value taken at attach, at
\* reset() or when a Sequence re-snapshots the object; and a Sequence of two
\* Delta leaves with deltas D1 and D2 on a property that is S at attach has
\* left it at S + D1 + D2 when it has completed.
C22_DeltaEndIsStartPlusDelta ==
    /\ \A l \in Leaves, w \in Widgets :
          (w \in DOMAIN children[l] /\ children[l][w].type = "delta")
          => \A p \in DOMAIN children[l][w].prop_list :
                children[l][w].prop_list[p].end
                   = DeltaEnd(children[l][w].prop_list[p].start, params[l].props[p])
    /\ (/\ root = "seq" /\ OneTarget /\ Len(animations) = 2
        /\ \A i \in 1..2 : params[animations[i]].type = "delta"
        /\ Count("w1", "on_complete", "seq") = 1)
       => attr["w1"]["x"]
             = As(attr0["w1"]["x"],
                  Add(Add(attr0["w1"]["x"], params[animations[1]].props["x"]),
                      params[animations[2]].props["x"]))

\* C23: in a Sequence, a child after the first that is started for a widget
\* has, when it starts, the widget's live values as its start values and the
\* end values it had before; and its first update writes the interpolation
\* between the value the child before it left on the widget and that end,
\* not between the value at attach and that end.
C23_NextChildResnapshots ==
    [][(root = "seq")
       => \A w \in Widgets, i \in 2..Len(animations) :
             LET l == animations[i]
             IN /\ (~IsRunning(State, l, w) /\ IsRunning(State, l, w)')
                   => \A p \in DOMAIN children[l][w].prop_list' :
                         /\ children[l][w].prop_list[p].start' = attr[w][p]'
                         /\ w \in DOMAIN children[l]
                            => children[l][w].prop_list[p].end'
                                  = children[l][w].prop_list[p].end
                /\ (/\ IsRunning(State, l, w)
                    /\ children[l][w].frame_pointer = 0
                    /\ children[l][w].frame_pointer' > 0)
                   => LET obj == children[l][w]'
                      IN \A p \in DOMAIN obj.prop_list :
                            attr[w][p]'
                               = Lerp(attr[w][p], obj.prop_list[p].end,
                                      alpha_function(obj.alpha, obj.progress,
                                                     obj.frame_pointer, obj.duration))]_vars

\* the second child has made its first update from the value the first left
C23_Witness ==
    /\ root = "seq" /\ OneTarget
    /\ AtRest("a", "w1")
    /\ IsRunning(State, "b", "w1")
    /\ children["b"]["w1"].frame_pointer > 0
    /\ children["b"]["w1"].frame_pointer < children["b"]["w1"].duration
    /\ children["b"]["w1"].prop_list["x"].start # attr0["w1"]["x"]
    /\ attr["w1"]["x"] # children["b"]["w1"].prop_list["x"].start

\* C24: the tick that brings an object's frame pointer to the duration or
\* past it also ends the run: after that step the object is not running, no
\* registration with the clock is left for it, and the completion hook has
\* fired (on_complete dispatched when generate_event is set).
C24_FinishesOnReachingTick ==
    [][\A w \in Widgets :
          (/\ root \in Leaves
           /\ Running(w)
           /\ w \in DOMAIN children[root]'
           /\ children[root][w].frame_pointer' # children[root][w].frame_pointer
           /\ children[root][w].frame_pointer' >= children[root][w].duration')
          => /\ ~Running(w)'
             /\ clock[root][w]' = 0
             /\ params[root].generate_event
                => Count(w, "on_complete", root)' = Count(w, "on_complete", root) + 1]_vars

\* C25: the frame pointer of every object stays within [0, duration] and its
\* progress within [0, 1], so the elapsed time an easing function reads from
\* the object never exceeds the duration.
C25_FramePointerBounded ==
    \A l \in Leaves, w \in Widgets :
        w \in DOMAIN children[l]
        => /\ 0 <= children[l][w].frame_pointer
           /\ children[l][w].frame_pointer <= children[l][w].duration
           /\ 0 <= children[l][w].progress.num
           /\ children[l][w].progress.num <= children[l][w].progress.den

\* a Repeat with a limit around a leaf, started on the one widget
BoundedRepeatStarted ==
    /\ repeated /\ root \in Leaves /\ OneTarget /\ times >= 1
    /\ "w1" \in animated

\* C26: a Repeat around an Absolute leaf, on one widget: the reset() of each
\* repetition leaves the object's bindings, frame pointer and progress as they
\* are, once the first run has completed no property of the widget is written
\* any more, on_repeat is dispatched with the counts 1, 2, ... in order, and a
\* Repeat with a limit eventually dispatches its on_complete.
C26_AbsoluteRepeatHasNoEffect ==
    /\ [][(repeated /\ root \in Leaves /\ OneTarget /\ params[root].type = "absolute")
          => /\ Len(RepeatCounts("w1")) >= 1 => attr' = attr
             /\ (/\ Len(RepeatCounts("w1"))' > Len(RepeatCounts("w1"))
                 /\ "w1" \in DOMAIN children[root]')
                => /\ children[root]["w1"].prop_list' = children[root]["w1"].prop_list
                   /\ children[root]["w1"].frame_pointer' = children[root]["w1"].frame_pointer
                   /\ children[root]["w1"].progress' = children[root]["w1"].progress
             /\ \A i \in 1..Len(RepeatCounts("w1"))' : RepeatCounts("w1")[i]' = i]_vars
    /\ (BoundedRepeatStarted /\ params[root].type = "absolute")
          ~> (Count("w1", "on_complete", "rep") = 1)

\* C30: a Repeat with limit N >= 1 around any leaf (Absolute or Delta,
\* generate_event set or not), started on one widget, with every registered
\* clock callback eventually delivered: eventually on_repeat has been
\* dispatched N times and the Repeat's on_complete once.
C30_BoundedRepeatTerminates ==
    BoundedRepeatStarted
       ~> (/\ Len(RepeatCounts("w1")) = times
           /\ Count("w1", "on_complete", "rep") = 1)

\* the positions of the notifications the widget got
Notified(w) == {i \in 1..Len(log[w]) : log[w][i].e = "on_animation_complete"}

\* C27: a Sequence or Parallel with single_event set, run on one widget: the
\* widget gets no notification for a child, and one notification in all, from
\* the composite, dispatched right after the composite's on_complete, when
\* every child has finished; when the run is over it has got exactly one.
C27_SingleEventAggregates ==
    (root \in {"seq", "par"} /\ single_event /\ OneTarget)
    => /\ Cardinality(Notified("w1")) = Count("w1", "on_complete", root)
       /\ Cardinality(Notified("w1")) <= 1
       /\ \A i \in Notified("w1") :
             /\ log["w1"][i].src = root
             /\ i > 1 /\ log["w1"][i - 1] = E("on_complete", root, 0)
             /\ AllAtRest("w1")
       /\ Quiet("w1") => Cardinality(Notified("w1")) = 1

\* a Sequence of three children, one of them generating events, has completed
C27_Witness ==
    /\ root = "seq" /\ single_event /\ OneTarget
    /\ Len(animations) = 3
    /\ \E i \in 1..3 : params[animations[i]].generate_event
    /\ AllAtRest("w1")
    /\ Quiet("w1")
    /\ log["w1"][Len(log["w1"])] = E("on_animation_complete", "seq", 0)

\* C28: (a & b) + c animated on a widget: no call raises; when the Parallel
\* has been started, a and b have been started for the widget; c is started
\* only when a and b have finished their runs; and the Sequence dispatches
\* on_complete once, when c has finished: it has when nothing is left to tick.
C28_NestedCompositeRuns ==
    /\ result.val \notin Exceptions
    /\ (root = "seq" /\ animations = <<"par", "c">>)
       => \A w \in animated :
             /\ Count(w, "on_start", "par") > 0
                => /\ Count(w, "on_start", params["par"].anim1) > 0
                   /\ Count(w, "on_start", params["par"].anim2) > 0
             /\ Count(w, "on_start", "c") > 0
                => /\ ~IsRunning(State, params["par"].anim1, w)
                   /\ ~IsRunning(State, params["par"].anim2, w)
             /\ Count(w, "on_complete", "seq") <= 1
             /\ Count(w, "on_complete", "seq") = 1 => AtRest("c", w)
             /\ Quiet(w) => Count(w, "on_complete", "seq") = 1

\* C29: animate(widget) on a Sequence or Parallel of which a child is running
\* for the widget changes nothing: no object, counter, property, event or
\* clock registration (so no finished child is started again and no on_start
\* is dispatched); and the run dispatches on_complete at most once, only when
\* every child has finished.
C29_ReanimateMidRunIsNoOp ==
    /\ [][\A w \in Widgets :
             (Reanimate(w) /\ \E i \in 1..Len(animations) : IsRunning(State, animations[i], w))
             => UNCHANGED <<children, attr, log, clock, stale, anim_counter,
                            dispatch_counter>>]_vars
    /\ [](\A w \in Widgets :
             (root \in {"seq", "par"} /\ Count(w, "on_start", root) <= 1)
             => /\ Count(w, "on_complete", root) <= 1
                /\ Count(w, "on_complete", root) = 1 => AllAtRest(w))

\* C31: over any interleaving of start(), stop(), reset() and ticks, an
\* animation object has at most one callback registered with the clock, so
\* that a frame of the clock, which delivers every registered callback once,
\* advances its frame pointer by dt and not by a multiple of dt; and after a
\* delivery that leaves the object not running, none is registered.
C31_OneRegistration ==
    /\ [](\A l \in Leaves, w \in Widgets : clock[l][w] <= 1 /\ stale[l][w] <= 1)
    /\ [][\A l \in Leaves, w \in Widgets :
             (/\ \E dt \in 1..MaxDt : Tick(l, w, dt)
              /\ ~IsRunning(State, l, w)')
             => clock[l][w]' = 0]_vars

====
